---- MODULE Spec2Model ----
(***************************************************************************)
(* Model of app.py: an interactive loop (main) that appends the user's     *)
(* line to a remote thread, starts a run, polls it (check_run_status),     *)
(* answers the run's tool calls through get_similarweb_top_keywords and    *)
(* prints the assistant's reply.                                           *)
(*                                                                         *)
(* Remote calls (assistant service, analytics endpoint) are the            *)
(* environment: each call either raises or returns one of the values the   *)
(* service can return, drawn with \E.                                      *)
(***************************************************************************)
EXTENDS Integers, Sequences, FiniteSets, TLC

\* ------------------------------------------------------------------ bounds
MaxInputs == 2        \* lines read from stdin in one session
MaxPolls == 4         \* status retrievals for one run
MaxToolCalls == 2     \* tool calls attached to one requires_action run

\* ------------------------------------------------------- program constants
PreviewLen == 500

Absent == "<absent>"

\* ------------------------------------------------------------ user input
\* A line is a sequence of one-character strings.
EOF_LINE == <<"<EOF>">>
NO_LINE == <<"<none>">>

InputLines ==
  { <<"q","u","i","t">>, <<"Q","U","I","T">>, <<"Q","u","i","t">>,
    <<"e","x","i","t">>, <<"E","x","i","T">>,
    <<>>, <<" ","\t">>,
    <<"h","i">> }

\* str.lower() on the letters the input lines use
LowerChar(c) ==
  CASE c = "Q" -> "q" [] c = "U" -> "u" [] c = "I" -> "i" [] c = "T" -> "t"
    [] c = "E" -> "e" [] c = "X" -> "x" [] c = "H" -> "h"
    [] OTHER -> c

Lower(s) == [k \in DOMAIN s |-> LowerChar(s[k])]

IsSpace(c) == c \in {" ", "\t"}

RECURSIVE LStrip(_)
LStrip(s) == IF s # <<>> /\ IsSpace(Head(s)) THEN LStrip(Tail(s)) ELSE s

RECURSIVE RStrip(_)
RStrip(s) ==
  IF s # <<>> /\ IsSpace(s[Len(s)]) THEN RStrip(SubSeq(s, 1, Len(s) - 1)) ELSE s

\* str.strip()
Strip(s) == RStrip(LStrip(s))

\* the comparison without lower()
IsQuitCommand_CaseSensitive(s) ==
  s \in { <<"q","u","i","t">>, <<"e","x","i","t">> }

\* user_question.lower() in ["quit", "exit"]
IsQuitCommand(s) ==
  Lower(s) \in { <<"q","u","i","t">>, <<"e","x","i","t">> }

\* not user_question.strip()
IsBlank(s) == Strip(s) = <<>>

\* --------------------------------------------------------------- JSON data
\* A JSON object of the program is a record with the keys the program uses;
\* a key the object does not have holds Absent (0 / -1 for numbers).
NoDetails ==
  [status_code |-> 0, reason |-> Absent, api_error |-> Absent,
   raw_response_text |-> -1, raw_response_preview |-> -1,
   data |-> Absent, meta_status |-> Absent]

\* the analytics payload {"data": ..., "meta": {"status": ...}}
Payload(d, m) ==
  [error |-> Absent, message |-> Absent, details |-> NoDetails,
   data |-> d, meta_status |-> m]

ErrorObj(e, det) ==
  [error |-> e, message |-> Absent, details |-> det,
   data |-> Absent, meta_status |-> Absent]

MessageObj(m) ==
  [error |-> Absent, message |-> m, details |-> NoDetails,
   data |-> Absent, meta_status |-> Absent]

\* a value is a Python dict or a Python str holding serialised JSON
AsDict(o) == [type |-> "dict", json |-> o]

\* json.dumps(obj)
Dumps(o) == [type |-> "str", json |-> o]

Min(a, b) == IF a < b THEN a ELSE b

\* text[:500], on the length of the text
Preview(len) == Min(len, PreviewLen)

\* ------------------------------------------------- analytics HTTP endpoint
StatusCodes == {200, 404, 500, 600}
BodyLens == {20, 600}

\* What requests.get(base_url, params) can do: fail at network level, or
\* return a response.  body says what response.json() finds; decodeIsRequestExc
\* says whether the decode error response.json() raises is also a
\* requests.exceptions.RequestException (it is in requests >= 2.27, it is a
\* plain json.JSONDecodeError before); the installed version is not pinned.
NetworkFailure ==
  [kind |-> "network_error", status_code |-> 0, reason |-> Absent,
   body |-> Absent, bodyLen |-> 0, data |-> Absent, meta_status |-> Absent,
   decodeIsRequestExc |-> FALSE]

NoResponse == [NetworkFailure EXCEPT !.kind = "none"]

HttpResponse(code, body, len, d, m, dre) ==
  [kind |-> "http", status_code |-> code,
   reason |-> IF code = 200 THEN "OK" ELSE IF code = 404 THEN "Not Found" ELSE "Error",
   body |-> body, bodyLen |-> len, data |-> d, meta_status |-> m,
   decodeIsRequestExc |-> dre]

Responses ==
  {NetworkFailure}
  \cup {HttpResponse(c, "not_json", l, Absent, Absent, dre) :
          c \in StatusCodes, l \in BodyLens, dre \in BOOLEAN}
  \cup {HttpResponse(c, "json_other", 2, Absent, Absent, FALSE) : c \in StatusCodes}
  \cup {HttpResponse(c, "json_dict", 40, d, m, FALSE) :
          c \in StatusCodes, d \in {Absent, "empty", "items"},
          m \in {Absent, "Success", "Error"}}

\* one response of each broad kind, for the runs of the whole session
SomeResponses ==
  { NetworkFailure,
    HttpResponse(404, "not_json", 20, Absent, Absent, FALSE),
    HttpResponse(200, "json_dict", 40, "items", "Success", FALSE) }

\* the status of the response is never checked
RaisesForStatus_Never(code) == FALSE

\* response.raise_for_status(): HTTPError for 4xx and 5xx
RaisesForStatus(code) == code >= 400 /\ code < 600

\* The classes of the exception the try body (lines 86-101) raises, or {} when
\* it returns.
TryBodyException(resp) ==
  IF resp.kind = "network_error" THEN {"RequestException", "Exception"}
  ELSE IF RaisesForStatus(resp.status_code)
    THEN {"HTTPError", "RequestException", "Exception"}
  ELSE IF resp.body = "not_json"
    THEN {"JSONDecodeError", "Exception"}
         \cup (IF resp.decodeIsRequestExc THEN {"RequestException"} ELSE {})
  ELSE IF resp.body = "json_other" THEN {"AttributeError", "Exception"}
  ELSE {}

\* The except clause that handles an exception: the first one, in source
\* order, naming one of its classes.
ExceptClause(classes) ==
  IF "HTTPError" \in classes THEN "HTTPError"
  ELSE IF "RequestException" \in classes THEN "RequestException"
  ELSE IF "JSONDecodeError" \in classes THEN "JSONDecodeError"
  ELSE "Exception"

\* only a missing key counts as no data, an empty list does not
NoData_OnlyAbsent(resp) == resp.data = Absent

\* not data.get("data"): the key is missing or its value is empty
NoData(resp) == resp.data \in {Absent, "empty"}

\* lines 90-101: the value returned when the try body raises nothing
NormalizePayload(resp) ==
  IF NoData(resp) /\ resp.meta_status = "Success"
    THEN Dumps(MessageObj("The API query was successful but returned no keyword data"))
  ELSE IF NoData(resp)
    THEN Dumps(ErrorObj("API returned no keyword data.",
                 [NoDetails EXCEPT !.data = resp.data,
                                   !.meta_status = resp.meta_status]))
  ELSE AsDict(Payload(resp.data, resp.meta_status))

\* an exception that leaves the function: no value is returned
Raised(class) == [type |-> "raised", json |-> ErrorObj(class, NoDetails)]

\* line 106: the classes of what http_err.response.json() raises, if anything
DecodeException(resp) ==
  IF resp.body = "not_json"
    THEN {"JSONDecodeError", "Exception"}
         \cup (IF resp.decodeIsRequestExc THEN {"RequestException"} ELSE {})
    ELSE {}

\* the inner handler names an exception class that json() never raises
InnerHandlerCatches_KeyError(classes) == "KeyError" \in classes

\* line 110: except json.JSONDecodeError, inside the HTTPError handler
InnerHandlerCatches(classes) == "JSONDecodeError" \in classes

\* lines 103-114: the HTTPError handler.  An exception its inner try does not
\* catch leaves the function: the except clauses after it do not apply.
HttpErrorResult(resp) ==
  LET exc == DecodeException(resp) IN
  IF exc # {} /\ ~InnerHandlerCatches(exc) THEN Raised("JSONDecodeError")
  ELSE
  Dumps(ErrorObj("HTTP error occurred",
    IF resp.body = "not_json"
      THEN [NoDetails EXCEPT !.status_code = resp.status_code,
                             !.reason = resp.reason,
                             !.raw_response_text = resp.bodyLen]
      ELSE [NoDetails EXCEPT !.status_code = resp.status_code,
                             !.reason = resp.reason,
                             !.api_error = resp.body]))

\* get_similarweb_top_keywords, given whether the API key is configured and
\* what the HTTP call does.
get_similarweb_top_keywords(keyConfigured, resp) ==
  IF ~keyConfigured
    THEN Dumps(ErrorObj("SimilarWeb API key not configured by the system administrator.",
                        NoDetails))
  ELSE LET exc == TryBodyException(resp) IN
    IF exc = {} THEN NormalizePayload(resp)
    ELSE LET clause == ExceptClause(exc) IN
      IF clause = "HTTPError" THEN HttpErrorResult(resp)
      ELSE IF clause = "RequestException"
        THEN Dumps(ErrorObj("A network request error occurred", NoDetails))
      ELSE IF clause = "JSONDecodeError"
        THEN Dumps(ErrorObj("Invalid JSON response from SimilarWeb API.",
               [NoDetails EXCEPT !.raw_response_preview = Preview(resp.bodyLen)]))
      ELSE Dumps(ErrorObj("An unexpected error occurred while fetching data",
                          NoDetails))

\* the HTTP request is sent whether or not there is an API key
SendsRequest_Always(keyConfigured) == TRUE

\* the HTTP request is sent only past the API-key check (lines 68-70)
SendsRequest(keyConfigured) == keyConfigured

\* ----------------------------------------------------------------- tool calls
KeywordTool == "get_similarweb_top_keywords"
ToolNames == {KeywordTool, "other_function"}

RequiredArgs == {"category", "domain", "start_date", "end_date"}

\* the value of one argument: the key is missing, or holds "" or a text
ArgValues == {Absent, "", "x"}

\* tool_call.function.arguments is a string: not JSON at all, JSON that is not
\* an object, or a JSON object (with any of the required keys).
ArgumentStrings ==
  { [parse |-> "invalid", args |-> [a \in RequiredArgs |-> Absent]],
    [parse |-> "not_object", args |-> [a \in RequiredArgs |-> Absent]] }
  \cup { [parse |-> "object", args |-> f] : f \in [RequiredArgs -> ArgValues] }

\* the tool calls a run can carry, before the service numbers them
ToolCalls ==
  { [id |-> 0, name |-> n, arguments |-> a] :
      n \in ToolNames, a \in ArgumentStrings }

\* one tool call of each kind, for the runs of the whole session
SomeToolCalls ==
  { [id |-> 0, name |-> KeywordTool,
     arguments |-> [parse |-> "object", args |-> [a \in RequiredArgs |-> "x"]]],
    [id |-> 0, name |-> KeywordTool,
     arguments |-> [parse |-> "object",
                    args |-> [a \in RequiredArgs |->
                                IF a = "domain" THEN Absent ELSE "x"]]],
    [id |-> 0, name |-> KeywordTool,
     arguments |-> [parse |-> "invalid", args |-> [a \in RequiredArgs |-> Absent]]],
    [id |-> 0, name |-> "other_function",
     arguments |-> [parse |-> "object", args |-> [a \in RequiredArgs |-> "x"]]],
    [id |-> 0, name |-> "other_function",
     arguments |-> [parse |-> "invalid", args |-> [a \in RequiredArgs |-> Absent]]] }

NoToolCall ==
  [id |-> 0, name |-> Absent,
   arguments |-> [parse |-> Absent, args |-> [a \in RequiredArgs |-> Absent]]]

\* Python truth of arguments.get(key): None and "" are false
Truthy(v) == v \notin {Absent, ""}

\* any() in place of all()
AllRequiredPresent_Any(tc) == \E a \in RequiredArgs : Truthy(tc.arguments.args[a])

\* all([category_val, domain_val, start_date_val, end_date_val])
AllRequiredPresent(tc) == \A a \in RequiredArgs : Truthy(tc.arguments.args[a])

\* Lines 191-225 raise for this tool call: json.loads fails on the arguments,
\* or arguments.get is looked up on a value that is not a dict.
DispatchRaises(tc) ==
  \/ tc.arguments.parse = "invalid"
  \/ tc.name = KeywordTool /\ tc.arguments.parse = "not_object"

\* line 207-217: the call reaches get_similarweb_top_keywords
InvokesApi(tc) ==
  ~DispatchRaises(tc) /\ tc.name = KeywordTool /\ AllRequiredPresent(tc)

\* lines 219-222: isinstance(api_response, dict) -> json.dumps
ToOutputString(v) == IF v.type = "dict" THEN Dumps(v.json) ELSE v

\* lines 197-225: the output string of a tool call that does not raise
DispatchOutput(tc, keyConfigured, resp) ==
  IF tc.name = KeywordTool
    THEN IF ~AllRequiredPresent(tc)
           THEN Dumps(ErrorObj("Missing one or more required arguments", NoDetails))
           ELSE ToOutputString(get_similarweb_top_keywords(keyConfigured, resp))
    ELSE Dumps(ErrorObj("Function not found.", NoDetails))

\* ------------------------------------------------------------------ messages
Roles == {"user", "assistant"}
ContentTypes == {"none", "text", "image_file"}
MessageLists ==
  { <<>> } \cup { <<[role |-> r, content |-> c]>> : r \in Roles, c \in ContentTypes }
  \cup { <<[role |-> "assistant", content |-> "image_file"],
           [role |-> "assistant", content |-> "text"]>>,
         <<[role |-> "user", content |-> "text"],
           [role |-> "assistant", content |-> "text"]>> }

\* lines 259-264: the first message, newest first, of role assistant whose
\* first content block is text
RECURSIVE FirstAssistantText(_)
FirstAssistantText(msgs) ==
  IF msgs = <<>> THEN "No assistant response found."
  ELSE IF Head(msgs).role = "assistant" /\ Head(msgs).content = "text"
    THEN "text"
  ELSE FirstAssistantText(Tail(msgs))

\* --------------------------------------------------------------- run status
Statuses ==
  {"queued", "in_progress", "requires_action", "completed",
   "failed", "cancelled", "expired"}

\* queued is not waited for: the loop queries again at once
Branch_QueuedNoSleep(status, ra) ==
  IF status = "completed" THEN "return_run"
  ELSE IF status = "requires_action"
    THEN IF ra = "submit_tool_outputs" THEN "tools" ELSE "loop"
  ELSE IF status = "queued" THEN "loop"
  ELSE IF status = "in_progress" THEN "sleep"
  ELSE "return_none"

\* in_progress is missing from the statuses waited for and ends the poll
Branch_InProgressEnds(status, ra) ==
  IF status = "completed" THEN "return_run"
  ELSE IF status = "requires_action"
    THEN IF ra = "submit_tool_outputs" THEN "tools" ELSE "loop"
  ELSE IF status = "queued" THEN "sleep"
  ELSE "return_none"

\* requires_action without outputs to submit is waited for like a pending run
Branch_ActionSleeps(status, ra) ==
  IF status = "completed" THEN "return_run"
  ELSE IF status = "requires_action"
    THEN IF ra = "submit_tool_outputs" THEN "tools" ELSE "sleep"
  ELSE IF status \in {"queued", "in_progress"} THEN "sleep"
  ELSE "return_none"

\* a failed run is polled again instead of ending the poll
Branch_FailedLoops(status, ra) ==
  IF status = "completed" THEN "return_run"
  ELSE IF status = "requires_action"
    THEN IF ra = "submit_tool_outputs" THEN "tools" ELSE "loop"
  ELSE IF status \in {"queued", "in_progress"} THEN "sleep"
  ELSE IF status = "failed" THEN "loop"
  ELSE "return_none"

\* the branch of the if/elif chain of lines 183-247 taken for a status
Branch(status, ra) ==
  IF status = "completed" THEN "return_run"
  ELSE IF status = "requires_action"
    THEN IF ra = "submit_tool_outputs" THEN "tools" ELSE "loop"
  ELSE IF status \in {"queued", "in_progress"} THEN "sleep"
  ELSE "return_none"

\* the run is returned whatever its terminal status
ReturnValue_Always(b, status) == status

\* line 184 / line 247: what check_run_status returns on a terminal status
ReturnValue(b, status) == IF b = "return_run" THEN status ELSE "None"

\* every entry is keyed by the id of the first tool call
OutputEntry_FirstCall(tc, out) == [tool_call_id |-> 1, output |-> out]

\* lines 227-230: the entry appended to tool_outputs
OutputEntry(tc, out) == [tool_call_id |-> tc.id, output |-> out]

\* the last output collected is left out of the batch
BatchOf_DropLast(outs) ==
  IF outs = << >> THEN outs ELSE SubSeq(outs, 1, Len(outs) - 1)

\* lines 234-238: the tool_outputs argument of submit_tool_outputs
BatchOf(outs) == outs

\* a failed submission is logged and the loop goes on
OnSubmitError_Continue == "retrieve"

\* lines 240-242: where a failed submission leads (return None)
OnSubmitError == "check_result"

\* only the status of a returned run is looked at
PollFailed_StatusOnly(cr) == cr \notin {"None", "completed"}

\* line 338: not completed_run or completed_run.status != "completed"
PollFailed(cr) == cr = "None" \/ cr # "completed"

\* the run the submission returned is evaluated: completed ends the poll
AfterSubmit_EvaluatesRun(status) ==
  IF status = "completed" THEN "check_result" ELSE "retrieve"

\* lines 234-239, then line 180: the run the submission returned is assigned
\* to run, and the loop retrieves the run again whatever its status
AfterSubmit(status) == "retrieve"

\* a failed update is reported and the session goes on to create the thread
OnUpdateFailure_Continue == "create_thread"

\* lines 299-301: where a failed update of the assistant leads (return)
OnUpdateFailure == "aborted"

\* a failed messages.create is reported and the turn goes on to start a run
OnAddFailure_Continue == "run_assistant"

\* lines 326-328: where a failed messages.create leads (continue)
OnAddFailure == "input"

\* ---------------------------------------------------------------------- state
VARIABLES
  pc,                 \* position of the process in main / check_run_status
  similarweb_api_key, \* TRUE when SIMILARWEB_API_KEY is set
  updated_assistant,  \* what update_assistant_with_tools returned, once called
  thread,             \* the thread main created, or "None"
  user_question,      \* the line last read by input()
  inputsRead,         \* lines read (EOF included)
  messagesAppended,   \* successful messages.create calls
  runsStarted,        \* successful runs.create calls
  lineOfRun,          \* inputsRead when the latest run was started
  remote_status,      \* status of the latest run as last reported by the service
  history,            \* statuses retrieved for the current run, in order
  run_status,         \* run.status of check_run_status' local run
  required_action,    \* run.required_action.type, or "None"
  tool_calls,         \* ids of run.required_action.submit_tool_outputs.tool_calls
  tool_call,          \* the tool call of the current loop iteration
  invoked,            \* get_similarweb_top_keywords was called for tool_call
  response,           \* the HTTP response obtained for tool_call, if any
  tool_outputs,       \* the list collected by the for loop
  batches,            \* submit_tool_outputs calls since the last retrieve
  lastBatch,          \* tool_outputs argument of the last submit call
  sleeps,             \* time.sleep calls for the current run
  raised,             \* where check_run_status caught an exception
  completed_run,      \* what check_run_status returned: "None" or run.status
  notice,             \* what main printed for the current line
  listed,             \* main listed the thread's messages for the current line
  turn_ops            \* remote operations main and the poller called for the line

vars ==
  <<pc, similarweb_api_key, updated_assistant, thread, user_question, inputsRead,
    messagesAppended, runsStarted, lineOfRun, remote_status, history,
    run_status, required_action, tool_calls, tool_call, invoked, response,
    tool_outputs, batches, lastBatch, sleeps, raised, completed_run, notice,
    listed, turn_ops>>

session == <<similarweb_api_key, updated_assistant, thread>>
counters == <<inputsRead, messagesAppended, runsStarted, lineOfRun>>
turn == <<user_question, notice, listed, turn_ops>>
round == <<required_action, tool_calls, tool_call, invoked, response,
           tool_outputs, batches, lastBatch>>
poll == <<history, run_status, sleeps, raised, completed_run>>

NoBatch == << >>

Init ==
  /\ pc = "update_assistant"
  /\ similarweb_api_key \in BOOLEAN
  /\ updated_assistant = "unset"
  /\ thread = "None"
  /\ user_question = NO_LINE
  /\ inputsRead = 0 /\ messagesAppended = 0 /\ runsStarted = 0
  /\ lineOfRun = 0
  /\ remote_status = "none"
  /\ history = << >> /\ run_status = "none" /\ sleeps = 0
  /\ raised = "none" /\ completed_run = "None"
  /\ required_action = "None" /\ tool_calls = << >>
  /\ tool_call = NoToolCall /\ invoked = FALSE /\ response = NoResponse
  /\ tool_outputs = << >> /\ batches = 0 /\ lastBatch = NoBatch
  /\ notice = "none" /\ listed = FALSE /\ turn_ops = {}

\* ----------------------------------------------------------------------- main
\* lines 298-302: update the assistant's tools, return when that fails
UpdateAssistant ==
  /\ pc = "update_assistant"
  /\ \E ok \in BOOLEAN :
       /\ updated_assistant' = IF ok THEN "assistant" ELSE "None"
       /\ pc' = IF ok THEN "create_thread" ELSE OnUpdateFailure
  /\ UNCHANGED <<similarweb_api_key, thread, counters, turn, remote_status,
                 round, poll>>

\* lines 304-308: create the thread, return when that fails
CreateThread ==
  /\ pc = "create_thread"
  /\ \E ok \in BOOLEAN :
       /\ pc' = IF ok THEN "input" ELSE "aborted"
       /\ thread' = IF ok THEN "thread_1" ELSE "None"
  /\ UNCHANGED <<similarweb_api_key, updated_assistant, counters, turn,
                 remote_status, round, poll>>

\* lines 311-323: read a line; EOF and quit/exit leave the loop, a blank line
\* goes back to the prompt
ReadInput ==
  /\ pc = "input"
  /\ inputsRead < MaxInputs
  /\ \E line \in InputLines \cup {EOF_LINE} :
       /\ user_question' = line
       /\ IF line = EOF_LINE \/ IsQuitCommand(line)
            THEN pc' = "done" /\ notice' = "none"
            ELSE IF IsBlank(line)
              THEN pc' = "input" /\ notice' = "no_input"
              ELSE pc' = "add_message" /\ notice' = "none"
  /\ inputsRead' = inputsRead + 1
  /\ listed' = FALSE
  /\ turn_ops' = {}
  /\ UNCHANGED <<session, messagesAppended, runsStarted, lineOfRun,
                 remote_status, round, poll>>

\* lines 325-328: append the line to the thread
AddMessage ==
  /\ pc = "add_message"
  /\ \E ok \in BOOLEAN :
       IF ok
         THEN /\ messagesAppended' = messagesAppended + 1
              /\ pc' = "run_assistant"
              /\ notice' = notice
         ELSE /\ messagesAppended' = messagesAppended
              /\ pc' = OnAddFailure
              /\ notice' = "add_failed"
  /\ turn_ops' = turn_ops \cup {"messages.create"}
  /\ UNCHANGED <<session, user_question, listed, inputsRead, runsStarted,
                 lineOfRun, remote_status, round, poll>>

\* lines 330-337: start a run and enter check_run_status
RunAssistant ==
  /\ pc = "run_assistant"
  /\ \E ok \in BOOLEAN :
       IF ok
         THEN /\ runsStarted' = runsStarted + 1
              /\ lineOfRun' = inputsRead
              /\ remote_status' = "queued"
              /\ pc' = "retrieve"
              /\ notice' = notice
              /\ raised' = "none" /\ completed_run' = "None"
         ELSE /\ runsStarted' = runsStarted
              /\ lineOfRun' = lineOfRun
              /\ remote_status' = remote_status
              /\ pc' = "input"
              /\ notice' = "run_failed"
              /\ UNCHANGED <<raised, completed_run>>
  /\ turn_ops' = turn_ops \cup {"runs.create"}
  /\ UNCHANGED <<session, user_question, listed, inputsRead, messagesAppended,
                 round, history, run_status, sleeps>>

\* ----------------------------------------------------------- check_run_status
\* lines 180-247: retrieve the run and take the branch of its status
Retrieve ==
  /\ pc = "retrieve"
  /\ Len(history) < MaxPolls
  /\ \/ \* the retrieve call raises (line 248)
        /\ raised' = "retrieve"
        /\ completed_run' = "None"
        /\ pc' = "check_result"
        /\ UNCHANGED <<remote_status, history, run_status, round>>
     \/ \E s \in Statuses, ra \in {"None", "submit_tool_outputs", "other"},
           n \in 0..MaxToolCalls :
          /\ (s # "requires_action") => (ra = "None")
          /\ (ra # "submit_tool_outputs") => (n = 0)
          /\ history' = Append(history, s)
          /\ run_status' = s
          /\ remote_status' = s
          /\ required_action' = ra
          /\ tool_calls' = [k \in 1..n |-> k]
          /\ tool_call' = NoToolCall
          /\ invoked' = FALSE
          /\ response' = NoResponse
          /\ tool_outputs' = << >>
          /\ batches' = 0
          /\ lastBatch' = NoBatch
          /\ raised' = raised
          /\ LET b == Branch(s, ra) IN
               /\ pc' = CASE b = "return_run" -> "check_result"
                          [] b = "return_none" -> "check_result"
                          [] b = "sleep" -> "sleep"
                          [] b = "loop" -> "retrieve"
                          [] b = "tools" -> IF n = 0 THEN "submit" ELSE "dispatch"
               /\ completed_run' = ReturnValue(b, s)
  /\ turn_ops' = turn_ops \cup {"runs.retrieve"}
  /\ UNCHANGED <<session, counters, user_question, notice, listed, sleeps>>

\* lines 190-230: one iteration of the for loop over tool_calls.  The service
\* fixed the tool call's name and arguments when it built the run; the model
\* draws them, from Calls, when the loop reaches the call, and draws what the
\* analytics endpoint answers from Resps.
DispatchFrom(Calls, Resps) ==
  /\ pc = "dispatch"
  /\ \E call \in Calls :
       LET tc == [call EXCEPT !.id = tool_calls[Len(tool_outputs) + 1]] IN
       /\ tool_call' = tc
       /\ invoked' = InvokesApi(tc)
       /\ IF DispatchRaises(tc)
            THEN /\ raised' = "dispatch"
                 /\ completed_run' = "None"
                 /\ pc' = "check_result"
                 /\ UNCHANGED <<response, tool_outputs>>
            ELSE \E resp \in Resps :
                   LET out == DispatchOutput(tc, similarweb_api_key, resp) IN
                   /\ response' =
                        IF InvokesApi(tc) /\ SendsRequest(similarweb_api_key)
                          THEN resp ELSE NoResponse
                   /\ (response' = NoResponse) => (resp = NetworkFailure)
                   /\ IF out.type = "raised"
                        THEN \* the exception left the tool function (line 248)
                             /\ raised' = "dispatch"
                             /\ completed_run' = "None"
                             /\ pc' = "check_result"
                             /\ UNCHANGED tool_outputs
                        ELSE /\ tool_outputs' =
                                  Append(tool_outputs, OutputEntry(tc, out))
                             /\ pc' = IF Len(tool_outputs) + 1 = Len(tool_calls)
                                        THEN "submit" ELSE "dispatch"
                             /\ UNCHANGED <<raised, completed_run>>
  /\ UNCHANGED <<session, counters, turn, remote_status, history, run_status,
                 sleeps, required_action, tool_calls, batches, lastBatch>>

Dispatch == DispatchFrom(SomeToolCalls, SomeResponses)

\* lines 233-242: submit the collected outputs; the call returns the run
Submit ==
  /\ pc = "submit"
  /\ batches' = batches + 1
  /\ lastBatch' = BatchOf(tool_outputs)
  /\ \/ /\ raised' = "submit"
        /\ completed_run' = "None"
        /\ pc' = OnSubmitError
        /\ UNCHANGED <<remote_status, run_status>>
     \/ \E s \in Statuses :
          /\ run_status' = s
          /\ remote_status' = s
          /\ pc' = AfterSubmit(s)
          /\ UNCHANGED <<raised, completed_run>>
  /\ UNCHANGED <<session, counters, turn, history, sleeps, required_action,
                 tool_calls, tool_call, invoked, response, tool_outputs>>

\* line 244: time.sleep(polling_interval)
Sleep ==
  /\ pc = "sleep"
  /\ sleeps' = sleeps + 1
  /\ pc' = "retrieve"
  /\ UNCHANGED <<session, counters, turn, remote_status, round, history,
                 run_status, raised, completed_run>>

\* lines 337-341: back in main with the value check_run_status returned
AfterPoll ==
  /\ pc = "check_result"
  /\ IF PollFailed(completed_run)
       THEN pc' = "input" /\ notice' = "failure"
       ELSE pc' = "get_response" /\ notice' = notice
  \* the locals of check_run_status are gone
  /\ history' = << >> /\ run_status' = "none" /\ sleeps' = 0
  /\ required_action' = "None" /\ tool_calls' = << >>
  /\ tool_call' = NoToolCall /\ invoked' = FALSE /\ response' = NoResponse
  /\ tool_outputs' = << >> /\ batches' = 0 /\ lastBatch' = NoBatch
  /\ UNCHANGED <<session, counters, user_question, listed, turn_ops,
                 remote_status, raised, completed_run>>

\* lines 343-345 and 252-267: list the messages and print the reply
GetResponse ==
  /\ pc = "get_response"
  /\ listed' = TRUE
  /\ \/ notice' = "Error fetching response."
     \/ \E msgs \in MessageLists : notice' = FirstAssistantText(msgs)
  /\ pc' = "input"
  /\ turn_ops' = turn_ops \cup {"messages.list"}
  /\ UNCHANGED <<session, counters, user_question, remote_status, round, poll>>

Next ==
  \/ UpdateAssistant
  \/ CreateThread
  \/ ReadInput
  \/ AddMessage
  \/ RunAssistant
  \/ Retrieve
  \/ Dispatch
  \/ Submit
  \/ Sleep
  \/ AfterPoll
  \/ GetResponse

Spec == Init /\ [][Next]_vars

\* ------------------------------------------------ the dispatcher on all inputs
\* The for loop of check_run_status applied to every tool call (both names,
\* every argument string) and every answer of the analytics endpoint.  It
\* starts where the first line of the session has been appended, its run
\* started and retrieved in requires_action with 1..MaxToolCalls tool calls.
InitTools ==
  /\ pc = "dispatch"
  /\ similarweb_api_key \in BOOLEAN
  /\ updated_assistant = "assistant"
  /\ thread = "thread_1"
  /\ user_question = <<"h","i">>
  /\ inputsRead = 1 /\ messagesAppended = 1 /\ runsStarted = 1
  /\ lineOfRun = 1
  /\ remote_status = "requires_action"
  /\ history = <<"requires_action">> /\ run_status = "requires_action"
  /\ sleeps = 0 /\ raised = "none" /\ completed_run = "None"
  /\ required_action = "submit_tool_outputs"
  /\ \E n \in 1..MaxToolCalls : tool_calls = [k \in 1..n |-> k]
  /\ tool_call = NoToolCall /\ invoked = FALSE /\ response = NoResponse
  /\ tool_outputs = << >> /\ batches = 0 /\ lastBatch = NoBatch
  /\ notice = "none" /\ listed = FALSE
  /\ turn_ops = {"messages.create", "runs.create", "runs.retrieve"}

\* the states of InitTools as a predicate, to see them reached under Spec
AtInitTools ==
  /\ pc = "dispatch" /\ thread = "thread_1" /\ user_question = <<"h","i">>
  /\ updated_assistant = "assistant"
  /\ turn_ops = {"messages.create", "runs.create", "runs.retrieve"}
  /\ inputsRead = 1 /\ messagesAppended = 1 /\ runsStarted = 1 /\ lineOfRun = 1
  /\ remote_status = "requires_action" /\ history = <<"requires_action">>
  /\ run_status = "requires_action" /\ sleeps = 0 /\ raised = "none"
  /\ completed_run = "None" /\ required_action = "submit_tool_outputs"
  /\ Len(tool_calls) = MaxToolCalls
  /\ tool_call = NoToolCall /\ invoked = FALSE /\ response = NoResponse
  /\ tool_outputs = << >> /\ batches = 0 /\ lastBatch = NoBatch
  /\ notice = "none" /\ listed = FALSE

DispatchAny == DispatchFrom(ToolCalls, Responses)

NextTools ==
  \/ DispatchAny
  \/ Submit
  \/ AfterPoll

SpecTools == InitTools /\ [][NextTools]_vars

\* ------------------------------------------------- the poll loop on its own
\* check_run_status from its entry in the first turn (line 337), with the
\* run's status on the service a state of its own: the service moves the run
\* between retrievals, and a retrieval (line 180) returns what it is then.
InitPoll ==
  /\ pc = "retrieve"
  /\ similarweb_api_key = TRUE
  /\ updated_assistant = "assistant"
  /\ thread = "thread_1"
  /\ user_question = <<"h","i">>
  /\ inputsRead = 1 /\ messagesAppended = 1 /\ runsStarted = 1
  /\ lineOfRun = 1
  /\ remote_status = "queued"
  /\ history = << >> /\ run_status = "none"
  /\ sleeps = 0 /\ raised = "none" /\ completed_run = "None"
  /\ required_action = "None"
  /\ tool_calls = << >>
  /\ tool_call = NoToolCall /\ invoked = FALSE /\ response = NoResponse
  /\ tool_outputs = << >> /\ batches = 0 /\ lastBatch = NoBatch
  /\ notice = "none" /\ listed = FALSE
  /\ turn_ops = {"messages.create", "runs.create"}

\* the service moves the run to another status while check_run_status runs
RemoteStep ==
  /\ pc \in {"retrieve", "dispatch", "submit", "sleep"}
  /\ \E s \in Statuses : s # remote_status /\ remote_status' = s
  /\ UNCHANGED <<pc, session, counters, turn, round, poll>>

\* line 180: the retrieval returns the run in the status it has on the service
RetrieveRun == Retrieve /\ remote_status' = remote_status

\* the tool calls of the poll loop on its own: one that is answered, one whose
\* arguments do not parse (line 192 raises)
PollToolCalls ==
  { tc \in SomeToolCalls :
      /\ tc.name = KeywordTool
      /\ tc.arguments.parse = "invalid" \/ tc.arguments.args["domain"] = "x" }

DispatchPoll == DispatchFrom(PollToolCalls, {NetworkFailure})

NextPoll ==
  \/ RemoteStep
  \/ RetrieveRun
  \/ DispatchPoll
  \/ Submit
  \/ Sleep

\* Every call of the loop returns or raises, and the loop then takes its next
\* step: weak fairness of each step of check_run_status; none of the service.
SpecPoll ==
  /\ InitPoll /\ [][NextPoll]_vars
  /\ WF_vars(RetrieveRun) /\ WF_vars(DispatchPoll) /\ WF_vars(Submit)
  /\ WF_vars(Sleep)

TypeOK ==
  /\ pc \in {"update_assistant", "create_thread", "input", "add_message",
             "run_assistant", "retrieve", "dispatch", "submit", "sleep",
             "check_result", "get_response", "done", "aborted"}
  /\ completed_run \in {"None"} \cup Statuses
  /\ raised \in {"none", "retrieve", "dispatch", "submit"}
  /\ Len(tool_outputs) <= Len(tool_calls)
  /\ updated_assistant \in {"unset", "None", "assistant"}
  /\ thread \in {"None", "thread_1"}
  /\ turn_ops \subseteq {"messages.create", "runs.create", "runs.retrieve",
                         "messages.list"}

\* ===================================================================== claims
PollerPcs == {"retrieve", "dispatch", "submit", "sleep"}
TerminalStatuses == {"completed", "failed", "cancelled", "expired"}

Range(f) == {f[k] : k \in DOMAIN f}
Last(q) == q[Len(q)]

\* the line of the latest run is the line last read
ThisTurn == runsStarted > 0 /\ lineOfRun = inputsRead

\* a tool output that is a JSON string of an object with an "error" key
IsErrorPayload(o) == o.type = "str" /\ o.json.error # Absent

\* C1: when check_run_status submits tool outputs for a run retrieved in
\* requires_action, it does so in one batch, in which every tool call id of
\* the run is the tool_call_id of exactly one entry and no other id occurs.
C1_BatchHasEachIdOnce ==
  /\ batches <= 1
  /\ batches = 1 =>
       /\ Last(history) = "requires_action"
       /\ \A id \in Range(tool_calls) :
            Cardinality({k \in DOMAIN lastBatch : lastBatch[k].tool_call_id = id}) = 1
       /\ \A k \in DOMAIN lastBatch : lastBatch[k].tool_call_id \in Range(tool_calls)

C1_Witness ==
  /\ pc = "retrieve" /\ batches = 1
  /\ Len(tool_calls) = 2 /\ Len(lastBatch) = 2

\* C2: after a retrieve that showed requires_action with pending tool calls,
\* the poller is about to retrieve again only if an output for every one of
\* them was submitted (and accepted) in between; after a dispatch exception or
\* a failed submission it has returned.
C2_NoPollWithoutOutputs ==
  /\ (pc \in {"retrieve", "sleep"} /\ tool_calls # << >>) =>
       /\ batches = 1
       /\ raised = "none"
       /\ \A id \in Range(tool_calls) :
            \E k \in DOMAIN lastBatch : lastBatch[k].tool_call_id = id
  /\ raised \in {"dispatch", "submit"} => pc \notin PollerPcs

C2_Witness ==
  /\ pc = "retrieve" /\ tool_calls # << >> /\ batches = 1
  /\ Len(history) >= 1 /\ Last(history) = "requires_action"

\* The analytics call failed: no API key, network failure, 4xx/5xx status, a
\* body that is no JSON object, or no data in an envelope that is no success.
DownstreamFailure(key, resp) ==
  \/ ~key
  \/ resp.kind = "network_error"
  \/ resp.status_code \in {404, 500}
  \/ resp.body \in {"not_json", "json_other"}
  \/ resp.data \in {Absent, "empty"} /\ resp.meta_status # "Success"

SomeRequiredMissing(tc) ==
  \E a \in RequiredArgs : tc.arguments.args[a] \in {Absent, ""}

\* A tool execution error of a tool call whose arguments were parsed: the name
\* is not the keyword tool, a required argument is missing or empty, or the
\* analytics call failed.
ToolExecutionError(tc, key, resp) ==
  \/ tc.name # KeywordTool /\ tc.name # Absent /\ tc.arguments.parse # "invalid"
  \/ /\ tc.name = KeywordTool /\ tc.arguments.parse = "object"
     /\ SomeRequiredMissing(tc) \/ DownstreamFailure(key, resp)

\* C3: a tool execution error (missing arguments, unknown tool, failure of the
\* analytics call) never makes the poller abort: the dispatch of such a call
\* raises nothing, its output is a JSON string of an error object under the
\* call's id, and that output is in the batch that is submitted.
C3_ToolErrorsBecomeOutputs ==
  /\ ToolExecutionError(tool_call, similarweb_api_key, response) =>
       /\ raised # "dispatch"
       /\ tool_outputs # << >>
       /\ Last(tool_outputs).tool_call_id = tool_call.id
       /\ IsErrorPayload(Last(tool_outputs).output)
  /\ batches = 1 => lastBatch = tool_outputs

C3_Witness ==
  /\ batches = 1 /\ raised = "none" /\ Len(lastBatch) = 2
  /\ tool_call.name = KeywordTool /\ response.status_code = 500
  /\ IsErrorPayload(lastBatch[1].output) /\ IsErrorPayload(lastBatch[2].output)

\* C4: a keyword-tool call in which any of category, domain, start_date,
\* end_date is missing or empty gets the missing-required-arguments error as
\* its output, and get_similarweb_top_keywords is not invoked for it (no HTTP
\* request is made).
C4_MissingArgsNeverInvoke ==
  (tool_call.name = KeywordTool /\ tool_call.arguments.parse = "object"
     /\ SomeRequiredMissing(tool_call)) =>
       /\ ~invoked
       /\ response = NoResponse
       /\ raised # "dispatch"
       /\ tool_outputs # << >>
       /\ Last(tool_outputs).tool_call_id = tool_call.id
       /\ Last(tool_outputs).output.type = "str"
       /\ Last(tool_outputs).output.json.error = "Missing one or more required arguments"

C4_Witness ==
  /\ tool_call.name = KeywordTool /\ tool_call.arguments.parse = "object"
  /\ tool_call.arguments.args["start_date"] = ""
  /\ tool_call.arguments.args["category"] = "x"
  /\ tool_call.arguments.args["domain"] = "x"
  /\ tool_call.arguments.args["end_date"] = "x"
  /\ similarweb_api_key
  /\ tool_outputs # << >> /\ ~invoked

\* C5: an exception while retrieving, dispatching or submitting stops the poll
\* loop: check_run_status returns None with no further remote call, and main
\* prints the failure notice, lists no messages and goes back to the prompt.
C5_ExceptionAbortsPoll ==
  raised # "none" =>
    /\ completed_run = "None"
    /\ pc \notin PollerPcs
    /\ pc # "get_response"
    /\ ThisTurn =>
         /\ pc \in {"check_result", "input"}
         /\ ~listed
         /\ pc = "input" => notice = "failure"

C5_Witness ==
  /\ raised = "dispatch" /\ pc = "input" /\ notice = "failure"
  /\ ThisTurn /\ remote_status = "requires_action"

\* C6: check_run_status returns a run only when the status last retrieved is
\* completed, and None when it is failed, cancelled or expired; what it
\* returns is None or a completed run.
C6_ReturnsCompletedOrNone ==
  /\ completed_run \in {"None", "completed"}
  /\ pc = "check_result" =>
       /\ completed_run = "completed" =>
            (history # << >> /\ Last(history) = "completed")
       /\ (history # << >> /\ Last(history) \in {"failed", "cancelled", "expired"}) =>
            completed_run = "None"

C6_Witness ==
  /\ pc = "check_result" /\ history # << >>
  /\ Last(history) = "expired" /\ completed_run = "None" /\ raised = "none"

ScenarioD == <<"queued", "in_progress", "in_progress", "completed">>

\* C7 as stated: retrievals yielding queued, in_progress, in_progress,
\* completed make check_run_status sleep exactly twice.
C7_Original ==
  (pc = "check_result" /\ history = ScenarioD) => sleeps = 2

\* C7 as amended: with these four retrievals check_run_status sleeps exactly
\* three times, once after each queued or in_progress status, and returns the
\* completed run.
C7_SleepsThreeTimes ==
  (pc = "check_result" /\ history = ScenarioD) =>
    (sleeps = 3 /\ completed_run = "completed")

C7_Witness == pc = "check_result" /\ history = ScenarioD /\ sleeps = 3

ReplyNotices == {"text", "No assistant response found.", "Error fetching response."}

\* C8: main lists the thread's messages and prints a reply only when
\* check_run_status returned a completed run for the current line; otherwise
\* it prints the failure notice, lists nothing and is back at the prompt.
C8_ReplyOnlyAfterCompletedRun ==
  /\ (pc = "get_response" \/ listed \/ notice \in ReplyNotices) =>
       (ThisTurn /\ completed_run = "completed" /\ raised = "none")
  /\ (ThisTurn /\ pc = "input" /\ completed_run # "completed") =>
       (notice = "failure" /\ ~listed)

C8_Witness ==
  /\ pc = "input" /\ ThisTurn /\ completed_run = "None" /\ raised = "none"
  /\ remote_status = "failed" /\ notice = "failure"

\* C9 as stated: the process is never at the prompt for a new line while the
\* run it started is still outstanding (not completed, failed, cancelled or
\* expired) on the service.
C9_Original ==
  pc = "input" => remote_status \in {"none"} \cup TerminalStatuses

\* C9 as amended: the process is at the prompt for a new line only after
\* check_run_status has returned; the run is then in a terminal status unless
\* the poll was aborted by an exception or a failed submission, in which case
\* the run may still be outstanding.
C9_PromptOnlyAfterPollReturned ==
  pc = "input" =>
    \/ remote_status \in {"none"} \cup TerminalStatuses
    \/ raised # "none"

C9_Witness ==
  /\ pc = "input" /\ raised = "submit" /\ remote_status = "requires_action"
  /\ inputsRead < MaxInputs

QuitLines ==
  { <<"q","u","i","t">>, <<"Q","U","I","T">>, <<"Q","u","i","t">>,
    <<"e","x","i","t">>, <<"E","x","i","T">> }

\* C10: after quit or exit in any letter case, or end of input, the session
\* has ended; that line added no message and no run (so at most one of each
\* per earlier line, and none at all when it was the first line), and
\* end of input ends the session the way quit does.
C10_QuitEndsSession ==
  user_question \in QuitLines \cup {EOF_LINE} =>
    /\ pc = "done"
    /\ notice = "none" /\ ~listed
    /\ messagesAppended <= inputsRead - 1
    /\ runsStarted <= inputsRead - 1
    /\ lineOfRun < inputsRead

C10_Witness ==
  /\ user_question = <<"E","x","i","T">> /\ pc = "done"
  /\ inputsRead = 2 /\ messagesAppended = 1 /\ runsStarted = 1

\* C11: start-up is ordered and fail-stop.  When updating the assistant fails
\* the session is aborted with no thread created and no input read; when
\* creating the thread fails it is aborted with no input read, no message
\* appended and no run started; no input is read, and the prompt is not
\* reached, before both steps succeeded.
C11_StartupFailStop ==
  /\ updated_assistant = "None" => (pc = "aborted" /\ thread = "None")
  /\ pc = "create_thread" => updated_assistant = "assistant"
  /\ (thread = "None" /\ pc \notin {"update_assistant", "create_thread"}) =>
       pc = "aborted"
  /\ pc = "aborted" =>
       /\ inputsRead = 0 /\ messagesAppended = 0 /\ runsStarted = 0
       /\ user_question = NO_LINE /\ turn_ops = {}
  /\ (inputsRead > 0 \/ pc = "input") =>
       (updated_assistant = "assistant" /\ thread = "thread_1")

C11_Witness ==
  /\ pc = "aborted" /\ updated_assistant = "None" /\ thread = "None"
  /\ inputsRead = 0

\* C12: a remote failure in a turn skips only that turn.  When appending the
\* message failed, no run was started and nothing was polled for that line;
\* when starting the run failed, nothing was polled and no messages were
\* listed; either way main is back at the prompt on the same thread.  A blank
\* line causes no remote operation at all.
C12_FailureSkipsOnlyTheTurn ==
  /\ notice = "add_failed" =>
       /\ pc = "input" /\ thread = "thread_1"
       /\ turn_ops = {"messages.create"}
       /\ lineOfRun < inputsRead /\ ~listed
  /\ notice = "run_failed" =>
       /\ pc = "input" /\ thread = "thread_1"
       /\ turn_ops = {"messages.create", "runs.create"}
       /\ lineOfRun < inputsRead /\ ~listed
  /\ notice = "no_input" =>
       /\ pc = "input" /\ thread = "thread_1"
       /\ IsBlank(user_question)
       /\ turn_ops = {}

C12_Witness ==
  /\ notice = "add_failed" /\ pc = "input" /\ inputsRead = 1
  /\ inputsRead < MaxInputs /\ messagesAppended = 0 /\ runsStarted = 0

NotConfigured == "SimilarWeb API key not configured by the system administrator."

\* C13 as stated: with the analytics API key unset, every tool call the
\* poller processed has the not-configured error object as its output.
C13_Original ==
  ~similarweb_api_key =>
    \A k \in DOMAIN tool_outputs :
      /\ tool_outputs[k].output.type = "str"
      /\ tool_outputs[k].output.json.error = NotConfigured

\* C13 as amended: with the analytics API key unset no HTTP request is made,
\* and every tool call that reaches get_similarweb_top_keywords (the keyword
\* tool with all four required arguments) has the not-configured error object
\* as its output under its id; the dispatch raises nothing and the poller goes
\* on to the next call, the submission and the next retrieval.
C13_NoKeyNoRequest ==
  ~similarweb_api_key =>
    /\ response = NoResponse
    /\ invoked =>
         /\ raised # "dispatch"
         /\ tool_outputs # << >>
         /\ Last(tool_outputs).tool_call_id = tool_call.id
         /\ Last(tool_outputs).output.type = "str"
         /\ Last(tool_outputs).output.json.error = NotConfigured
         /\ Last(tool_outputs).output.json.details = NoDetails
         /\ raised = "none" => pc \in {"dispatch", "submit", "retrieve"}

C13_Witness ==
  /\ ~similarweb_api_key /\ invoked /\ batches = 1 /\ pc = "retrieve"
  /\ Len(lastBatch) = 2
  /\ lastBatch[2].output.json.error = NotConfigured

PendingStatuses == {"queued", "in_progress"}

\* C14, safety: check_run_status does not return while the status it
\* retrieved last is queued or in_progress, however many retrievals there
\* were; it returns only on a terminal status or an exception.
C14_NeverReturnsWhilePending ==
  /\ (raised = "none" /\ history # << >> /\ Last(history) \in PendingStatuses) =>
       pc \in {"sleep", "retrieve"}
  /\ (pc = "check_result" /\ raised = "none") =>
       (history # << >> /\ Last(history) \in TerminalStatuses)

\* C14: check_run_status polls without bound and never returns while the
\* retrieved status is queued or in_progress; once the run is in a terminal
\* status on the service and stays there, check_run_status returns (with or
\* without an exception).
C14_BlocksUntilTerminal ==
  /\ []C14_NeverReturnsWhilePending
  /\ (remote_status \in TerminalStatuses /\ Len(history) < MaxPolls)
       ~> (pc = "check_result" \/ remote_status \notin TerminalStatuses)

C14_Witness ==
  /\ pc = "check_result" /\ raised = "none" /\ Len(history) = MaxPolls
  /\ history[1] = "queued" /\ history[2] = "in_progress"
  /\ Last(history) = "failed" /\ remote_status = "failed"
  /\ sleeps = MaxPolls - 1

\* C15: get_similarweb_top_keywords never lets an exception reach its caller.
\* Whatever the HTTP call does (answer, error status with a JSON or a non-JSON
\* body, network failure, non-JSON body, JSON of another shape) the call
\* returns a value, which becomes the tool output, and when the analytics call
\* failed that value is an error object.
C15_NeverPropagates ==
  invoked =>
    /\ raised # "dispatch"
    /\ tool_outputs # << >>
    /\ Last(tool_outputs).tool_call_id = tool_call.id
    /\ Last(tool_outputs).output.type = "str"
    /\ DownstreamFailure(similarweb_api_key, response) =>
         Last(tool_outputs).output.json.error # Absent

C15_Witness ==
  /\ invoked /\ similarweb_api_key /\ raised = "none"
  /\ response.kind = "http" /\ response.status_code = 500
  /\ response.body = "not_json" /\ response.bodyLen = 600
  /\ Last(tool_outputs).tool_call_id = tool_call.id
  /\ Last(tool_outputs).output.json.error = "HTTP error occurred"
  /\ Last(tool_outputs).output.json.details.raw_response_text = 600

\* C16: with the API key configured, for every HTTP status code >= 400 that
\* the analytics endpoint answers, get_similarweb_top_keywords returns an
\* object with an error and with details.status_code equal to that code.
C16_ErrorForEveryStatusFrom400 ==
  (invoked /\ similarweb_api_key /\ response.kind = "http"
     /\ response.status_code >= 400) =>
       /\ tool_outputs # << >>
       /\ Last(tool_outputs).output.json.error # Absent
       /\ Last(tool_outputs).output.json.details.status_code = response.status_code

\* C17: for an HTTP success whose body is a JSON object: with data empty or
\* absent and meta.status "Success" the result is the no-data message object,
\* with no error key; with data empty or absent and any other meta.status it
\* is an error object with the raw payload as details; with data that is not
\* empty it is the raw payload itself.
C17_PayloadNormalised ==
  (invoked /\ similarweb_api_key /\ response.kind = "http"
     /\ response.status_code = 200 /\ response.body = "json_dict") =>
    /\ tool_outputs # << >>
    /\ LET o == Last(tool_outputs).output.json
           empty == response.data \in {Absent, "empty"} IN
       /\ (empty /\ response.meta_status = "Success") =>
            /\ o.message = "The API query was successful but returned no keyword data"
            /\ o.error = Absent /\ o.data = Absent
       /\ (empty /\ response.meta_status # "Success") =>
            /\ o.error = "API returned no keyword data."
            /\ o.message = Absent
            /\ o.details.data = response.data
            /\ o.details.meta_status = response.meta_status
       /\ ~empty =>
            o = Payload(response.data, response.meta_status)

C17_Witness ==
  /\ invoked /\ similarweb_api_key /\ response.kind = "http"
  /\ response.status_code = 200 /\ response.body = "json_dict"
  /\ response.data = "empty" /\ response.meta_status = "Success"
  /\ Last(tool_outputs).output.json.message # Absent
  /\ Last(tool_outputs).output.json.error = Absent

\* C18 as stated: the run evaluated in the loop iteration after a successful
\* submission is the run the submission returned.
C18_Original ==
  [][(pc = "retrieve" /\ batches = 1 /\ raised' = "none") =>
       run_status' = run_status]_vars

\* the branch taken is that of the run retrieved last, and after a successful
\* submission the loop is about to retrieve, whatever the submission returned
EvaluatesRetrievedRun ==
  /\ (batches = 1 /\ raised = "none") =>
       (pc = "retrieve" /\ completed_run = "None")
  /\ (pc \in {"dispatch", "submit", "sleep"}
        \/ (pc = "check_result" /\ raised = "none")) =>
       (history # << >> /\ run_status = Last(history))

\* C18 as amended: after a successful submission check_run_status goes on
\* polling whatever run the submission returned: it retrieves the run again,
\* and the run evaluated in the next iteration is the one retrieved there.
C18_RetrievesAgainAfterSubmit ==
  /\ []EvaluatesRetrievedRun
  /\ [][(pc = "retrieve" /\ batches = 1 /\ raised' = "none") =>
          /\ Len(history') = Len(history) + 1
          /\ run_status' = Last(history')
          /\ batches' = 0]_vars

C18_Witness ==
  /\ pc = "retrieve" /\ batches = 1 /\ raised = "none"
  /\ run_status = "completed" /\ Last(history) = "requires_action"
  /\ completed_run = "None" /\ Len(history) < MaxPolls

\* the retrievals of the current poll that returned queued or in_progress
PendingRetrievals == {k \in DOMAIN history : history[k] \in PendingStatuses}

\* one sleep for each retrieval of a pending status, the last of them still
\* to come when the loop stands before it; no sleep for any other status
SleepsMatchPendingRetrievals ==
  /\ sleeps + (IF pc = "sleep" THEN 1 ELSE 0) = Cardinality(PendingRetrievals)
  /\ pc = "sleep" => (history # << >> /\ Last(history) \in PendingStatuses)
  /\ (history # << >> /\ Last(history) \in PendingStatuses /\ raised = "none") =>
       pc \in {"sleep", "retrieve"}

\* C19: check_run_status sleeps in a loop iteration exactly when the status
\* retrieved in that iteration is queued or in_progress, and after each sleep
\* it retrieves the run again; an iteration that retrieved requires_action,
\* with or without a submission, goes to the next retrieval without a sleep.
C19_SleepsIffPending ==
  /\ []SleepsMatchPendingRetrievals
  /\ [][/\ pc = "sleep" =>
             (pc' = "retrieve" /\ sleeps' = sleeps + 1 /\ history' = history)
        /\ (history # << >> /\ Last(history) = "requires_action") =>
             sleeps' \in {sleeps, 0}]_vars

C19_Witness ==
  /\ pc = "retrieve" /\ Len(history) = 3 /\ sleeps = 1 /\ raised = "none"
  /\ history[1] = "queued" /\ history[2] = "requires_action"
  /\ history[3] = "requires_action" /\ required_action # "submit_tool_outputs"

\* C20: when the endpoint answers a success status with a body that is not
\* JSON, get_similarweb_top_keywords returns the invalid-JSON error object,
\* with the first 500 characters of the body as details.raw_response_preview,
\* and neither the network-error nor the unexpected-error object.
C20_InvalidJsonHandled ==
  (invoked /\ similarweb_api_key /\ response.kind = "http"
     /\ response.status_code = 200 /\ response.body = "not_json") =>
       /\ tool_outputs # << >>
       /\ Last(tool_outputs).output.json.error =
            "Invalid JSON response from SimilarWeb API."
       /\ Last(tool_outputs).output.json.details.raw_response_preview =
            Preview(response.bodyLen)

====
